---- MODULE Spec2Model ----
(***************************************************************************)
(* MQTToolkits: the registry of publishers of Toolkit, the create and      *)
(* delete commands of the shell, and the publishing threads they start.    *)
(* Every step below is one interleaving point of the Python threads: the   *)
(* shared list Toolkit._publishers and the flag Publisher._stop are read   *)
(* and written without any lock.                                           *)
(***************************************************************************)
EXTENDS Integers, Sequences, FiniteSets, TLC

\* ------------------------------------------------------------------ bounds
MaxTasks == 2      \* Publisher objects constructed in one run
MaxLines == 2      \* lines of a payload file
MaxSends == 2      \* publish calls of one string publisher
NCallers == 2      \* threads calling the Toolkit in SpecConc

Tasks   == 1..MaxTasks
Callers == 1..NCallers
CommandThread == 1                 \* the shell: one command at a time

Names  == {"a"}                    \* explicit names given to create / delete
NoName == ""                       \* name omitted: falsy in `name or uuid4()`
Unreadable == -1                   \* open(payload) raises
Topics  == {"t", ""}               \* --topic: a topic, or the empty string
Periods == {1, 0, -1}              \* --period: positive, or not
FILE_   == "file"
STRING_ == "string"
ContentType == {FILE_, STRING_}

VARIABLES
    client,              \* Toolkit._client: None, or a Client (connected or not)
    publishers,          \* Toolkit._publishers: list of Publisher objects
    nextId,              \* identity of the next Publisher object
    name,                \* Publisher._name
    stop,                \* Publisher._stop
    published_messages,  \* Publisher._published_messages
    content_type,        \* content_type captured by the thread's closure
    lines,               \* number of lines of the payload file (or Unreadable)
    pc,                  \* position of each publishing thread
    line,                \* lines consumed by the for loop of the file thread
    cmd,                 \* each caller's position in create / delete
    sent,                \* history: payloads handed to the MQTT client
    rc,                  \* history: how the latest client publish call ended
    late                 \* history: publish calls made with _stop already set

vars == <<client, publishers, nextId, name, stop, published_messages, content_type,
          lines, pc, line, cmd, sent, rc, late>>

\* ----------------------------------------------------------------- helpers
Range(s) == {s[i] : i \in 1..Len(s)}

uuid4(t) == "uuid" \o ToString(t)

\* publisher.name, resolved by `name or str(uuid.uuid4().int)`
ResolveName(n, t) == IF n = NoName THEN uuid4(t) ELSE n

\* [p.name for p in self.publishers]
PublisherNames(pubs) == {name[pubs[i]] : i \in 1..Len(pubs)}

\* fault: every name is taken for a registered one
NameExistsAlways(n, pubs) == TRUE
\* fault: the name check left out
NameExistsNever(n, pubs) == FALSE
\* publisher.name in [p.name for p in self.publishers]
NameExists(n, pubs) == n \in PublisherNames(pubs)

\* fault: the comparison matches any entry
NameMatchesAlways(p, n) == TRUE
\* publisher.name == name
NameMatches(p, n) == name[p] = n

\* fault: the thread never looks at the flag
StopSeenNever(t) == FALSE
\* if publisher._stop:
StopSeen(t) == stop[t]

\* fault: the flag is not set
StopFlagKept(flags, p) == flags
\* publisher._stop = True
StopFlagSet(flags, p) == [flags EXCEPT ![p] = TRUE]

\* list.remove(x): drops the first item equal to x
IndexOf(pubs, p) == CHOOSE i \in 1..Len(pubs) :
                        pubs[i] = p /\ \A j \in 1..(i - 1) : pubs[j] # p
\* fault: the first entry is dropped, whichever it is
ListRemoveHead(pubs, p) == Tail(pubs)
ListRemove(pubs, p) ==
    LET k == IndexOf(pubs, p)
    IN  [i \in 1..(Len(pubs) - 1) |-> IF i < k THEN pubs[i] ELSE pubs[i + 1]]

Idle == [pc |-> "idle", op |-> "none", name |-> NoName, topic |-> "t",
         period |-> 1, content_type |-> STRING_, lines |-> 0, publisher |-> 0,
         idx |-> 0, registered |-> FALSE, result |-> "none"]

\* the call is over: only what the caller saw of it is kept
Return(call, result) ==
    [Idle EXCEPT !.result = result, !.registered = call.registered]

Init ==
    /\ client = "None"
    /\ publishers = <<>>
    /\ nextId = 1
    /\ name = [t \in Tasks |-> NoName]
    /\ stop = [t \in Tasks |-> FALSE]
    /\ published_messages = [t \in Tasks |-> 0]
    /\ content_type = [t \in Tasks |-> STRING_]
    /\ lines = [t \in Tasks |-> 0]
    /\ pc = [t \in Tasks |-> "none"]
    /\ line = [t \in Tasks |-> 0]
    /\ cmd = [c \in Callers |-> Idle]
    /\ sent = [t \in Tasks |-> <<>>]
    /\ rc = "none"
    /\ late = [t \in Tasks |-> 0]

Worker == <<pc, line, sent, rc, late, published_messages>>
Objects == <<client, nextId, name, content_type, lines>>

\* --------------------------------------------------------------- launch
\* Toolkit.connect: self._client = Client(...) is assigned before
\* self.client.connect(host, port), which raises when the broker refuses
ClientAfterConnect(reachable) ==
    IF reachable THEN "connected" ELSE "unconnected"

\* launch: toolkit.connect(...) in the `while True` loop that ends with the
\* first successful connect; the shell starts after it
Connect(reachable) ==
    /\ client # "connected"
    /\ client' = ClientAfterConnect(reachable)
    /\ UNCHANGED <<publishers, stop, Worker, nextId, name, content_type, lines,
                   cmd>>

\* ------------------------------------------------- create (shell command)
\* the shell invokes create(name, topic, payload, period, content_type)
CreateCall(c, n, tp, pd, ct, k) ==
    /\ client = "connected"
    /\ cmd[c].pc = "idle"
    /\ nextId + Cardinality({d \in Callers : cmd[d].pc = "create_check"})
           <= MaxTasks
    /\ cmd' = [cmd EXCEPT ![c] = [Idle EXCEPT !.pc = "create_check",
                  !.op = "create", !.name = n, !.topic = tp, !.period = pd,
                  !.content_type = ct,
                  !.lines = IF ct = FILE_ THEN k ELSE 0,
                  !.registered = NameExists(n, publishers)]]
    /\ UNCHANGED <<publishers, stop, Worker, Objects>>

\* Toolkit.createPublisher: construct the Publisher, look its name up
CreateCheck(c) ==
    /\ cmd[c].pc = "create_check"
    /\ LET n == ResolveName(cmd[c].name, nextId)
       IN  IF NameExists(n, publishers)
           THEN /\ cmd' = [cmd EXCEPT ![c] = Return(cmd[c], "DuplicateName")]
                /\ UNCHANGED <<nextId, name>>
           ELSE /\ name' = [name EXCEPT ![nextId] = n]
                /\ nextId' = nextId + 1
                /\ cmd' = [cmd EXCEPT ![c].pc = "create_append",
                                      ![c].publisher = nextId]
    /\ UNCHANGED <<client, publishers, stop, Worker, content_type, lines>>

\* Toolkit.createPublisher: self.publishers.append(publisher)
CreateAppend(c) ==
    /\ cmd[c].pc = "create_append"
    /\ publishers' = Append(publishers, cmd[c].publisher)
    /\ cmd' = [cmd EXCEPT ![c].pc = "create_start"]
    /\ UNCHANGED <<stop, Worker, Objects>>

\* create: threading.Thread(target=_publishing, daemon=True).start()
CreateStart(c) ==
    /\ cmd[c].pc = "create_start"
    /\ LET p == cmd[c].publisher
       IN  /\ pc' = [pc EXCEPT ![p] = IF cmd[c].content_type = FILE_
                                      THEN "open" ELSE "loop"]
           /\ content_type' = [content_type EXCEPT ![p] = cmd[c].content_type]
           /\ lines' = [lines EXCEPT ![p] = cmd[c].lines]
    /\ cmd' = [cmd EXCEPT ![c] = Return(cmd[c], "created")]
    /\ UNCHANGED <<client, publishers, stop, nextId, name, line, sent, rc,
                   late, published_messages>>

\* ------------------------------------------------- delete (shell command)
\* the shell invokes delete(name) -> Toolkit.deletePublisher(name)
DeleteCall(c, n) ==
    /\ client = "connected"
    /\ cmd[c].pc = "idle"
    /\ cmd' = [cmd EXCEPT ![c] = [Idle EXCEPT !.pc = "delete_iter",
                  !.op = "delete", !.name = n,
                  !.registered = NameExists(n, publishers)]]
    /\ UNCHANGED <<publishers, stop, Worker, Objects>>

\* for publisher in self.publishers: if publisher.name == name:
DeleteIter(c) ==
    /\ cmd[c].pc = "delete_iter"
    /\ IF cmd[c].idx >= Len(publishers)
       THEN cmd' = [cmd EXCEPT ![c] = Return(cmd[c], "returned")]
       ELSE LET p == publishers[cmd[c].idx + 1]
            IN  IF NameMatches(p, cmd[c].name)
                THEN cmd' = [cmd EXCEPT ![c].pc = "delete_stop",
                                        ![c].publisher = p, ![c].idx = 0]
                ELSE cmd' = [cmd EXCEPT ![c].idx = @ + 1]
    /\ UNCHANGED <<publishers, stop, Worker, Objects>>

\* publisher._stop = True
DeleteStop(c) ==
    /\ cmd[c].pc = "delete_stop"
    /\ stop' = StopFlagSet(stop, cmd[c].publisher)
    /\ cmd' = [cmd EXCEPT ![c].pc = "delete_remove"]
    /\ UNCHANGED <<publishers, Worker, Objects>>

\* self.publishers.remove(publisher); break
DeleteRemove(c) ==
    /\ cmd[c].pc = "delete_remove"
    /\ IF cmd[c].publisher \in Range(publishers)
       THEN /\ publishers' = ListRemove(publishers, cmd[c].publisher)
            /\ cmd' = [cmd EXCEPT ![c] = Return(cmd[c], "returned")]
       ELSE /\ publishers' = publishers
            /\ cmd' = [cmd EXCEPT ![c] = Return(cmd[c], "ValueError")]
    /\ UNCHANGED <<stop, Worker, Objects>>

\* ------------------------------------------------- the publishing threads
\* file thread: open(payload, "r").readlines()
Open(t) ==
    /\ pc[t] = "open"
    /\ pc' = [pc EXCEPT ![t] = IF lines[t] = Unreadable THEN "failed_open"
                               ELSE "loop"]
    /\ UNCHANGED <<publishers, stop, cmd, Objects, line, sent, rc, late,
                   published_messages>>

\* fault: the iteration passes over a line
NextLineSkips(i) == i + 2
\* `for line in open(payload, "r").readlines()`: the next line of the list
NextLine(i) == i + 1

\* file thread: `for line in ...: if publisher._stop: break`
FileLoop(t) ==
    /\ pc[t] = "loop"
    /\ content_type[t] = FILE_
    /\ IF line[t] >= lines[t]
       THEN /\ pc' = [pc EXCEPT ![t] = "remove"]
            /\ line' = line
       ELSE /\ line' = [line EXCEPT ![t] = NextLine(@)]
            /\ pc' = [pc EXCEPT ![t] = IF StopSeen(t) THEN "remove" ELSE "sleep"]
    /\ UNCHANGED <<publishers, stop, cmd, Objects, sent, rc, late,
                   published_messages>>

\* string thread: `while True: if publisher._stop: break`
StringLoop(t) ==
    /\ pc[t] = "loop"
    /\ content_type[t] = STRING_
    /\ pc' = [pc EXCEPT ![t] = IF StopSeen(t) THEN "done" ELSE "sleep"]
    /\ UNCHANGED <<publishers, stop, cmd, Objects, line, sent, rc, late,
                   published_messages>>

SendOutcomes == {"ok", "failed", "raised"}

\* sleep(period); publisher.publish(payload): the thread wakes up and calls
\* the client, which returns (whether or not the message went out) or
\* raises; only a return reaches the increment. Of the endless stream of a
\* string thread the first MaxSends sends are followed, and the last one it
\* makes once its flag is set.
Publish(t, outcome) ==
    /\ pc[t] = "sleep"
    /\ content_type[t] = STRING_ => (Len(sent[t]) < MaxSends \/ stop[t])
    /\ sent' = [sent EXCEPT ![t] = Append(@, line[t])]
    /\ rc' = outcome
    /\ late' = [late EXCEPT ![t] = IF stop[t] THEN @ + 1 ELSE @]
    /\ IF outcome = "raised"
       THEN /\ pc' = [pc EXCEPT ![t] = "failed_publish"]
            /\ published_messages' = published_messages
       ELSE /\ pc' = [pc EXCEPT ![t] = "loop"]
            /\ published_messages' = [published_messages EXCEPT ![t] = @ + 1]
    /\ UNCHANGED <<publishers, stop, cmd, Objects, line>>

\* file thread: toolkit.publishers.remove(publisher)
SelfRemove(t) ==
    /\ pc[t] = "remove"
    /\ IF t \in Range(publishers)
       THEN /\ publishers' = ListRemove(publishers, t)
            /\ pc' = [pc EXCEPT ![t] = "done"]
       ELSE /\ publishers' = publishers
            /\ pc' = [pc EXCEPT ![t] = "failed_remove"]
    /\ UNCHANGED <<stop, cmd, Objects, line, sent, rc, late,
                   published_messages>>

\* ---------------------------------------------------------- specifications
DeleteNames == Names \cup {name[t] : t \in 1..(nextId - 1)}

Create(c) ==
    \/ \E n \in Names \cup {NoName}, tp \in Topics, pd \in Periods,
          ct \in ContentType, k \in {Unreadable} \cup 0..MaxLines :
              CreateCall(c, n, tp, pd, ct, k)
    \/ CreateCheck(c)
    \/ CreateAppend(c)
    \/ CreateStart(c)

Delete(c) ==
    \/ \E n \in DeleteNames : DeleteCall(c, n)
    \/ DeleteIter(c)
    \/ DeleteStop(c)
    \/ DeleteRemove(c)

Thread(t) ==
    \/ Open(t)
    \/ FileLoop(t)
    \/ StringLoop(t)
    \/ \E outcome \in SendOutcomes : Publish(t, outcome)
    \/ SelfRemove(t)

\* the program: every command comes from the one shell thread
Next ==
    \/ \E reachable \in BOOLEAN : Connect(reachable)
    \/ Create(CommandThread)
    \/ Delete(CommandThread)
    \/ \E t \in Tasks : Thread(t)

Spec == Init /\ [][Next]_vars

\* the Toolkit called from several threads at once
NextConc ==
    \/ \E reachable \in BOOLEAN : Connect(reachable)
    \/ \E c \in Callers : Create(c)
    \/ \E t \in Tasks : Thread(t)

SpecConc == Init /\ [][NextConc]_vars

\* The publishing threads are daemon threads of the operating system: one
\* that can take a step (its sleep ends, its call returns) eventually does.
\* Nothing obliges the user to type a command.
SpecFair == Spec /\ \A t \in Tasks : WF_vars(Thread(t))

\* ------------------------------------------------------------ properties
\* the registry holds an entry named n
Registered(n) == \E i \in 1..Len(publishers) : name[publishers[i]] = n

\* caller c takes a step of its command
Steps(c) == cmd'[c] # cmd[c]

C3_OneEntryPerName ==
    \A n \in Names :
        Cardinality({i \in 1..Len(publishers) : name[publishers[i]] = n}) <= 1

\* caller c is inside a deletePublisher whose name was not registered
DeletesUnregistered(c) ==
    cmd[c].pc \in {"delete_iter", "delete_stop", "delete_remove"}
        /\ ~cmd[c].registered

Sends(t) == Len(sent'[t]) > Len(sent[t])

\* C5 as stated: every send of a task happens with its stop flag unset
C5_NoSendAfterStop ==
    [][\A t \in Tasks : Sends(t) => ~stop[t]]_vars

\* C5 as amended: a thread sends at most once with its stop flag set (the
\* flag was set after the check that precedes the wait), and after that
\* send it never waits or sends again
C5_AtMostOneLateSend ==
    \A t \in Tasks :
        /\ late[t] <= 1
        /\ late[t] = 1 => pc[t] # "sleep"

\* a string publisher and a file publisher have each sent once with the
\* flag set and have then left their loops
C5_Witness ==
    \E s, t \in Tasks :
        /\ content_type[s] = STRING_ /\ late[s] = 1 /\ pc[s] = "done"
        /\ content_type[t] = FILE_ /\ late[t] = 1
        /\ pc[t] \in {"remove", "done", "failed_remove"}

\* C6: neither deletePublisher nor the self-removal of a file thread ever
\* raises when both go for the same entry
C6_RemovalNeverRaises ==
    /\ \A t \in Tasks : pc[t] # "failed_remove"
    /\ \A c \in Callers : cmd[c].result # "ValueError"

Exited == {"done", "failed_open", "failed_publish", "failed_remove"}
Live   == {"open", "loop", "sleep", "remove"}

\* C7: a file thread over K lines whose publisher was never stopped ends
\* only after exactly K sends and with its entry removed from the registry
C7_KSendsThenSelfRemoval ==
    \A t \in Tasks :
        (content_type[t] = FILE_ /\ lines[t] >= 0 /\ ~stop[t]
            /\ pc[t] \in Exited)
        => /\ pc[t] = "done"
           /\ Len(sent[t]) = lines[t]
           /\ t \notin Range(publishers)

\* C8: after a send that failed the thread is back at the head of its loop,
\* and the registry, the stop flags and the callers are as before
C8_FailedSendKeepsRunning ==
    [][\A t \in Tasks :
         (Sends(t) /\ rc' \in {"failed", "raised"})
         => /\ pc'[t] = "loop"
            /\ publishers' = publishers
            /\ stop' = stop
            /\ cmd' = cmd]_vars

DeleteReturns(c) ==
    /\ cmd[c].pc \in {"delete_iter", "delete_stop", "delete_remove"}
    /\ cmd'[c].pc = "idle"

\* C11: when deletePublisher(N), called with N registered, returns, it
\* returns normally, N is absent from the registry, and the step that
\* returned changed nothing of the registry but N's entry (the other
\* entries are the same, in the same relative order).
C11_DeleteRemovesTarget ==
    [][\A c \in Callers :
          (DeleteReturns(c) /\ cmd[c].registered)
              => /\ cmd'[c].result = "returned"
                 /\ \A i \in 1..Len(publishers') :
                        name'[publishers'[i]] # cmd[c].name
                 /\ publishers' =
                        SelectSeq(publishers,
                                  LAMBDA p : name[p] # cmd[c].name)]_vars

\* ------------------------------------------------------------------ C12
\* C12: a createPublisher(N) that finds no entry named N in the registry
\* (N was never created, or its entry was removed by deletePublisher or by
\* the worker's self-removal) succeeds: it makes a new task named N and
\* registers it, whether or not an earlier worker of that name has exited.
C12_NameReusable ==
    [][\A c \in Callers :
          /\ (cmd[c].pc = "create_check" /\ Steps(c)
                  /\ ~Registered(cmd[c].name))
                 => /\ cmd'[c].pc = "create_append"
                    /\ pc[cmd'[c].publisher] = "none"
                    /\ cmd[c].name # NoName
                           => name'[cmd'[c].publisher] = cmd[c].name
          /\ (cmd[c].pc = "create_append" /\ Steps(c))
                 => /\ cmd[c].publisher \in Range(publishers')
                    /\ cmd'[c].pc = "create_start"
          /\ (cmd[c].pc = "create_start" /\ Steps(c))
                 => /\ cmd'[c].result = "created"
                    /\ pc'[cmd[c].publisher] \in Live]_vars

\* "a" was deleted, its worker is still alive, and a second "a" has been
\* created and is registered
C12_Witness ==
    \E s, t \in Tasks :
        /\ s < t /\ name[s] = "a" /\ name[t] = "a"
        /\ stop[s] /\ pc[s] \in Live
        /\ t \in Range(publishers) /\ pc[t] \in Live
        /\ cmd[CommandThread].result = "created"

\* ------------------------------------------------------------------ C13
\* C13: under fair scheduling of the threads, a task that deletePublisher
\* has found and whose stop flag it has set (the call is past line 185, or
\* has returned) eventually has its worker exited.
C13_StoppedEventuallyExits ==
    \A t \in Tasks :
        (\E c \in Callers : cmd[c].pc = "delete_remove" /\ cmd[c].publisher = t)
            ~> (pc[t] \in Exited)

\* a string task and a file task that deletePublisher stopped, both exited
C13_Witness ==
    \E s, t \in Tasks :
        /\ content_type[s] = STRING_ /\ stop[s] /\ pc[s] = "done"
        /\ content_type[t] = FILE_ /\ stop[t] /\ pc[t] \in Exited
        /\ lines[t] = MaxLines /\ Len(sent[t]) < MaxLines

\* ------------------------------------------------------------------ C14
\* C14: the Toolkit holds a client object only when it is connected: after
\* a connect call that failed, no client object is held.
C14_FailedConnectHoldsNothing == client \in {"None", "connected"}

\* ------------------------------------------------------------------ C15
InvalidArguments(call) == call.topic = "" \/ call.period <= 0

\* C15: a create whose topic is empty or whose period is not greater than 0
\* is rejected at its first step with a validation error; it adds no entry
\* to the registry and starts no thread.
C15_InvalidArgumentsRejected ==
    [][\A c \in Callers :
          (cmd[c].op = "create" /\ Steps(c) /\ InvalidArguments(cmd[c]))
              => /\ cmd'[c].pc = "idle"
                 /\ cmd'[c].result = "ValidationError"
                 /\ publishers' = publishers
                 /\ pc' = pc]_vars

\* ------------------------------------------------------------------ C16
\* C16: no entry of the registry belongs to a task whose payload file could
\* not be opened: a create with an unreadable payload leaves no entry
\* behind.
C16_UnreadablePayloadLeavesNoEntry ==
    \A t \in Tasks : pc[t] = "failed_open" => t \notin Range(publishers)

\* ------------------------------------------------------------------ C17
\* C17: the payloads a file task has sent so far are the first lines of its
\* file, in the order of the file, each once and none left out; the thread
\* has fetched at most one line that it has not sent (it sends one line at
\* a time), also when it was stopped before the end of the file.
C17_SentIsPrefix ==
    \A t \in Tasks :
        content_type[t] = FILE_
            => /\ \A i \in 1..Len(sent[t]) : sent[t][i] = i
               /\ Len(sent[t]) = 0 \/ Len(sent[t]) <= lines[t]
               /\ line[t] - Len(sent[t]) \in {0, 1}

\* one file task has sent its whole file, another one was stopped after its
\* first line
C17_Witness ==
    \E s, t \in Tasks :
        /\ content_type[s] = FILE_ /\ lines[s] = MaxLines
        /\ Len(sent[s]) = MaxLines
        /\ content_type[t] = FILE_ /\ lines[t] = MaxLines
        /\ stop[t] /\ Len(sent[t]) = 1 /\ pc[t] \in Exited

\* ------------------------------------------------------------------ C18
\* C18: published_messages starts at 0 and counts the sends that succeeded:
\* a step adds exactly 1 to a task's counter when it is a send of that task
\* that succeeded, and leaves the counter alone when it is a send that
\* failed or any other step.
C18_CountsSuccessfulSends ==
    [][\A t \in Tasks :
          published_messages'[t] =
              IF Sends(t) /\ rc' = "ok"
              THEN published_messages[t] + 1
              ELSE published_messages[t]]_vars

\* ------------------------------------------------------------------ C19
\* deletePublisher has set the flag of t and is not about to remove t: it
\* has returned
Deleted(t) ==
    /\ stop[t]
    /\ \A c \in Callers :
           ~(cmd[c].pc = "delete_remove" /\ cmd[c].publisher = t)

\* C19: once deletePublisher has returned, the thread of the deleted task,
\* string or file, makes at most one more send: a send it makes then is the
\* first since the flag was set, and at its next test of the flag the
\* thread leaves its loop.
C19_OneSendAfterDeleteReturned ==
    [][\A t \in Tasks :
          Deleted(t)
              => /\ Sends(t) => (late[t] = 0 /\ pc'[t] # "sleep")
                 /\ (pc[t] = "loop" /\ pc'[t] # "loop")
                        => pc'[t] \in {"done", "remove"}
                 /\ pc[t] \in {"remove"} \cup Exited
                        => pc'[t] \in {"remove"} \cup Exited]_vars

\* deletePublisher has returned, and after it a string thread and a file
\* thread each made one send and ended
C19_Witness ==
    /\ cmd[CommandThread].pc = "idle"
    /\ cmd[CommandThread].result = "returned"
    /\ \E s, t \in Tasks :
           /\ content_type[s] = STRING_ /\ content_type[t] = FILE_
           /\ \A u \in {s, t} :
                  /\ Deleted(u) /\ late[u] = 1 /\ rc = "ok"
                  /\ u \notin Range(publishers)
                  /\ pc[u] \in {"done", "failed_remove"}

\* ------------------------------------------------------------------ C20
\* C20: the removal step of a file thread takes out of the registry the
\* entry of its own task, if it is there, and nothing else: every other
\* entry, one of the same name included, stays, in the same order.
C20_SelfRemovalRemovesOnlySelf ==
    [][\A t \in Tasks :
          (pc[t] = "remove" /\ pc'[t] # "remove")
              => publishers' = SelectSeq(publishers, LAMBDA p : p # t)]_vars

\* "a" was deleted and created again before the thread of the first "a"
\* reached its removal; that thread has ended and the second "a" is still
\* registered
C20_Witness ==
    \E s, t \in Tasks :
        /\ s < t /\ name[s] = "a" /\ name[t] = "a"
        /\ content_type[s] = FILE_ /\ stop[s] /\ pc[s] = "failed_remove"
        /\ t \in Range(publishers) /\ ~stop[t]

====
